---- MODULE Spec2Model ----
(***************************************************************************)
(* Model of awsRender's remote resource and command execution layer:      *)
(*   ec2RunCmd.EC2RemoteClient  (NewEC2RemoteClient, makeReady, ...)      *)
(*   sshCmdClient.SSHCmdClient  (NewSSHCmdClient, RunCommandWithOutput,   *)
(*                               writeToFile, Close)                      *)
(* The control plane, the SSH server and the remote shell are the         *)
(* environment: their answers are chosen nondeterministically.            *)
(***************************************************************************)
EXTENDS Integers, Sequences, FiniteSets, TLC

\* ------------------------------------------------------------------ bounds
MaxKey == 2          \* distinct key blobs per host-key algorithm
MaxExit == 2         \* remote exit codes 0..MaxExit (and 255) are explored
MaxOps == 2          \* operations the caller issues on a ready instance
MaxCloses == 2       \* calls of Close the caller makes
MaxLen == 2          \* longest payload explored
BufSize == 1         \* bytes moved by one step of io.Copy (scaled down)
WriterSize == 2      \* default size of a bufio.Writer, in lines (scaled down)

\* --------------------------------------------------------------- constants
statusMissingStatus == 1
statusCmdFailedStatus == 1

KeyTypes == {"ssh-rsa", "ssh-ed25519"}
NoKey == [type |-> "none", blob |-> 0]
Keys == [type : KeyTypes, blob : 1..MaxKey]
\* authorized-key text: an algorithm word and a base64 blob (0 = undecodable)
HostKeyTexts == [alg : KeyTypes \cup {"garbage"}, blob : 0..MaxKey]
PemStates == {"ok", "unreadable", "malformed"}
ExitCodes == (0..MaxExit) \cup {255}
Signals == {9}
ValidIPs == {"203.0.113.7"}
NilPtr == "<nil>"
PublicIpValues == {NilPtr, "not-an-ip"} \cup ValidIPs

\* what the remote side does with a command that was handed to session.Run
RemoteOutcomes ==
    [kind : {"exit"}, code : ExitCodes]
        \cup [kind : {"signal"}, code : Signals]
        \cup [kind : {"missing", "io"}, code : {0}]
NoOutcome == [kind |-> "none", code |-> 0]

\* the six steps of makeReady, in the order the code issues them
SixSteps == <<"query", "start", "wait", "resolve", "open", "probe">>

VARIABLES
    cred,        \* SSHCredentials: [SSHHostKey, pem]
    resource,    \* control-plane state of the instance: absent/stopped/running
    pc,          \* position of main / NewEC2RemoteClient / makeReady
    steps,       \* makeReady steps issued so far, in order
    okSteps,     \* how many of them succeeded
    queryRunning,\* did the status query report state "running"
    addrInfo,    \* what DescribeInstances returned: "none","apierr","norecord","noaddr","badaddr","addr"
    instanceIP,  \* ins.instanceIP: NilPtr or a parsed address
    cmdClient,   \* ins.cmdClient: "nil" or "client"
    transport,   \* the SSH connection: "none", "open", "closed"
    dial,        \* what ssh.Dial met: [done, net, auth, presented]
    dials,       \* number of ssh.Dial calls
    mrErr,       \* makeReady's outcome: "pending", "nil", "err", "panic"
    cpc,         \* position inside RunCommandWithOutput / writeToFile
    caller,      \* who issued the running call: "none", "probe", "driver"
    curOpened,   \* sub-sessions opened by the current call
    curCloses,   \* session.Close calls made by the current call
    subOpen,     \* sub-sessions currently open on the transport
    outcome,     \* what happened to the current call's command
    result,      \* the current call's return value: [exitStatus, err]
    ops,         \* operations issued by the caller after makeReady
    debug,       \* main's --debug-run flag
    issued,      \* the names of the steps main has issued, in order
    mlog,        \* what each step that returned gave main: [name, exitStatus, err]
    mstep,       \* index in MainSteps of main's current step, 0 before the first
    exitHow,     \* how the process ended: "none", "fatal", "exit0", "panic"
    closes,      \* calls of EC2RemoteClient.Close so far
    closeErr,    \* what the last Close returned: "none", "nil" or an error
    localSrc,    \* what CopyFile found at its local source path
    srcKind,     \* the reader handed to writeToFile: "none", "bytes", "file"
    payload,     \* the bytes the current upload is to write
    sent,        \* the bytes io.Copy has put into the sub-session's stdin
    dest,        \* the remote path the current upload writes to
    remoteFile,  \* content of the remote file at each path
    chanData,    \* bytes sent into the sub-session, not yet written remotely
    lastUpload,  \* the last upload that returned nil: where to and what
    method,      \* the method of the package the running call entered by
    arg,         \* what BackgroundCommand was called with: [cmd, discardOutput]
    cmd,         \* the command line handed to the sub-session, piece by piece
    bg,          \* the process the last BackgroundCommand line detached
    settings,    \* config.Settings: a one-element sequence per pointer field
    cfgpc,       \* position inside GetSettings / the defaults round trip
    cfgErr,      \* the error the last config function returned
    dflt,        \* the defaults structure in memory, as write is handed it
    file,        \* the defaults file: [exists, data], data a sequence of lines
    loaded       \* the defaults structure read fills in

vars == <<cred, resource, pc, steps, okSteps, queryRunning, addrInfo,
          instanceIP, cmdClient, transport, dial, dials, mrErr, cpc, caller,
          curOpened, curCloses, subOpen, outcome, result, ops,
          debug, issued, mlog, mstep, exitHow, closes, closeErr,
          localSrc, srcKind, payload, sent, dest, remoteFile, chanData, lastUpload,
          method, arg, cmd, bg,
          settings, cfgpc, cfgErr, dflt, file, loaded>>

cfgVars == <<settings, cfgpc, cfgErr, dflt, file, loaded>>
envVars == <<cred>>
drvVars == <<debug, mstep, exitHow, closes, closeErr>>
logVars == <<issued, mlog>>
procVars == <<method, arg, cmd, bg>>
fileVars == <<localSrc, srcKind, payload, sent, dest, remoteFile, chanData, lastUpload>>
mrVars == <<steps, okSteps, queryRunning, addrInfo, instanceIP>>
sshVars == <<cmdClient, transport, dial, dials>>
callVars == <<cpc, caller, curOpened, curCloses, subOpen, outcome, result>>

\* payloads: every byte string of at most MaxLen bytes
RECURSIVE SeqsUpTo(_, _)
SeqsUpTo(S, n) ==
    IF n = 0 THEN {<<>>}
    ELSE LET shorter == SeqsUpTo(S, n - 1)
         IN  shorter \cup {Append(q, x) : q \in shorter, x \in S}
\* byte values: the null byte and one other
Bytes == {0, 1}
Payloads == SeqsUpTo(Bytes, MaxLen)
\* the run script createRunScript builds (lines 86-142 of awsRender.go) is
\* text: not empty and free of null bytes
RunScripts == {p \in Payloads : p # <<>> /\ \A i \in 1..Len(p) : p[i] # 0}
\* what the destination held before: longer than any payload
OldContent == [i \in 1..(MaxLen + 1) |-> 1]
\* remote paths uploads go to: main's two (lines 172 and 178 of awsRender.go)
\* remote paths, character by character: main's two destinations, workDir
\* followed by the model file's name, which is the user's and may hold a
\* quote, and by run.sh (lines 172 and 178 of awsRender.go)
SourcePath == <<"w", "'">>
ScriptPath == <<"w">>
Paths == {SourcePath, ScriptPath}
\* the destinations another caller of the package uploads to
ClientPaths == {SourcePath}
NoPath == <<>>
NoUpload == [ok |-> FALSE, dest |-> NoPath, sent |-> <<>>]
NoArg == [cmd |-> <<>>, discardOutput |-> FALSE]
NoProcess == [state |-> "none", hupProof |-> FALSE]
\* what CopyFile can find at the source path
LocalSources == {"missing", "directory", "device", "unreadable", "regular"}

NoResult == [exitStatus |-> 0, err |-> "nil"]
NoDial == [done |-> FALSE, net |-> FALSE, auth |-> FALSE, presented |-> NoKey]

\* ------------------------------------------------------- library behaviour
\* ssh.ParseAuthorizedKey: an error unless the algorithm is known and the
\* blob decodes
ParseAuthorizedKey(text) ==
    IF text.alg \in KeyTypes /\ text.blob \in 1..MaxKey
    THEN [err |-> FALSE, key |-> [type |-> text.alg, blob |-> text.blob]]
    ELSE [err |-> TRUE, key |-> NoKey]

\* net.ParseIP: nil unless the text is an address
ParseIP(s) == IF s \in ValidIPs THEN s ELSE NilPtr

\* session.Run's error for each remote outcome (comment at lines 98-101)
SessionRun(o) ==
    CASE o.kind = "exit" /\ o.code = 0 -> [type |-> "nil", status |-> 0]
      [] o.kind = "exit" /\ o.code # 0 -> [type |-> "ExitError", status |-> o.code]
      [] o.kind = "signal" -> [type |-> "ExitError", status |-> 128 + o.code]
      [] o.kind = "missing" -> [type |-> "ExitMissingError", status |-> 0]
      [] OTHER -> [type |-> "other", status |-> 0]

\* ------------------------------------------------------------ config package
\* a *string or *bool field: <<>> for a nil pointer, <<v>> for a pointer to v
Ptr(v) == <<v>>
Deref(p) == p[1]

\* the fields of Settings in the order of the struct (lines 25-33)
SettingsFields ==
    <<"InstanceID", "PemFile", "Username", "HostKey", "S3bucket", "EmailAddr", "ShutdownFlag">>

\* the settings GetSettings may have to check after the command line and the
\* defaults were merged; pflag makes every pointer non-nil
PemFiles == {"", "absent.pem", "key.pem"}
EmailAddrs == {"", "a@b", "a b"}
CheckedSettings ==
    [InstanceID : {Ptr(""), Ptr("i-1")},
     PemFile : {Ptr(p) : p \in PemFiles},
     Username : {Ptr(""), Ptr("u")},
     HostKey : {Ptr("")},
     S3bucket : {Ptr(""), Ptr("s3://b")},
     EmailAddr : {Ptr(e) : e \in EmailAddrs},
     ShutdownFlag : {Ptr(FALSE)}]

GoodSettings ==
    [InstanceID |-> Ptr("i-1"), PemFile |-> Ptr("key.pem"), Username |-> Ptr("u"),
     HostKey |-> Ptr(""), S3bucket |-> Ptr("s3://b"), EmailAddr |-> Ptr(""),
     ShutdownFlag |-> Ptr(FALSE)]

\* os.Stat of the PEM path: only key.pem is there; the empty path is not
Stat(path) == IF path = "key.pem" THEN "nil" ELSE "ENOENT"
IsNotExist(err) == err = "ENOENT"

\* mail.ParseAddress: nil for an address of the form local@domain
ParseAddress(addr) == IF addr = "a@b" THEN "nil" ELSE "mail: missing '@' or angle-addr"

\* lines 69-98, statement by statement: err is overwritten by each test that
\* fires, and, for a non-empty address, by what ParseAddress returned
checkSettings(c) ==
    LET e0 == "nil"
        e1 == IF Deref(c.PemFile) = "" THEN "Require SSH PEM file to be specified" ELSE e0
        e2 == IF IsNotExist(Stat(Deref(c.PemFile))) THEN "Cannot locate SSH PEM file" ELSE e1
        e3 == IF Deref(c.Username) = "" THEN "Require SSH username to be specified" ELSE e2
        e4 == IF Deref(c.InstanceID) = "" THEN "Require EC2 instance ID to be specified" ELSE e3
        e5 == IF Deref(c.S3bucket) = "" THEN "Require result S3 bucket to be specified" ELSE e4
        e6 == IF Deref(c.EmailAddr) # "" THEN ParseAddress(Deref(c.EmailAddr)) ELSE e5
    IN  e6

\* ----- the defaults file
InstanceIDs == <<"i-1", "i-2">>
IDSet == {InstanceIDs[i] : i \in 1..Len(InstanceIDs)}

\* the settings kept per instance in a defaults structure
SavedSettings ==
    [InstanceID : {Ptr(InstanceIDs[1]), Ptr(InstanceIDs[2])},
     PemFile : {Ptr("key.pem")},
     Username : {Ptr("u")},
     HostKey : {Ptr(""), Ptr("h")},
     S3bucket : {Ptr("s3://b")},
     EmailAddr : {Ptr(""), Ptr("a@b")},
     ShutdownFlag : {Ptr(FALSE), Ptr(TRUE)}]

\* a Settings value with every pointer nil
ZeroSettings == [f \in {SettingsFields[i] : i \in 1..Len(SettingsFields)} |-> <<>>]

\* lines 35-38: the primary instance ID and the map, which may be nil
ZeroDefaults == [DefaultInstanceID |-> "", nilMap |-> TRUE, Instances |-> <<>>]
DefaultsValues ==
    {d \in [DefaultInstanceID : {""} \cup IDSet,
             nilMap : BOOLEAN,
             Instances : UNION {[K -> SavedSettings] : K \in SUBSET IDSet}] :
        d.nilMap => DOMAIN d.Instances = {}}

\* ----- TOML as the encoder writes it, line by line
\* a table header [a.b] or a line key = value; a value is written as text
\* with its TOML type: a quoted string, or true / false
TableLine(path) == [kind |-> "table", path |-> path, key |-> "", val |-> [type |-> "none", text |-> ""]]
KeyLine(key, val) == [kind |-> "key", path |-> <<>>, key |-> key, val |-> val]
StringVal(str) == [type |-> "string", text |-> str]
BoolVal(b) == [type |-> "bool", text |-> IF b THEN "true" ELSE "false"]

\* the lines of one Settings struct: a nil pointer writes nothing
RECURSIVE SettingsLines(_, _)
SettingsLines(c, i) ==
    IF i > Len(SettingsFields) THEN <<>>
    ELSE LET f == SettingsFields[i]
             here == IF c[f] = <<>> THEN <<>>
                     ELSE IF f = "ShutdownFlag" THEN <<KeyLine(f, BoolVal(Deref(c[f])))>>
                     ELSE <<KeyLine(f, StringVal(Deref(c[f])))>>
         IN  here \o SettingsLines(c, i + 1)

\* the sub-tables of the map, keys in sorted order
RECURSIVE InstanceTables(_, _)
InstanceTables(m, i) ==
    IF i > Len(InstanceIDs) THEN <<>>
    ELSE LET k == InstanceIDs[i]
             here == IF k \in DOMAIN m
                     THEN <<TableLine(<<"Instances", k>>)>> \o SettingsLines(m[k], 1)
                     ELSE <<>>
         IN  here \o InstanceTables(m, i + 1)

\* toml.Encoder on a defaults struct: the plain key first, then the map as
\* a table with one sub-table per instance; a nil map writes nothing
EncodedLines(d) ==
    <<KeyLine("DefaultInstanceID", StringVal(d.DefaultInstanceID))>>
        \o (IF d.nilMap THEN <<>>
            ELSE <<TableLine(<<"Instances">>)>> \o InstanceTables(d.Instances, 1))

\* ----- bufio.Writer, as a chain of buffers above the file
\* a chain is [layers, out]: layers[1] is the writer nearest the caller, out
\* what has reached the file
NoLayers == [layers |-> <<>>, out |-> <<>>]

\* bufio.Writer.Write on layer j: what does not fit goes down, directly when
\* the buffer is empty, else after the buffer was filled and flushed
RECURSIVE Write(_, _, _)
Write(w, j, p) ==
    IF j > Len(w.layers) THEN [w EXCEPT !.out = @ \o p]
    ELSE LET L == w.layers[j]
             avail == L.size - Len(L.buf)
         IN  IF Len(p) > avail
             THEN IF Len(L.buf) = 0
                  THEN Write(w, j + 1, p)
                  ELSE LET filled == L.buf \o SubSeq(p, 1, avail)
                           emptied == [w EXCEPT !.layers[j].buf = <<>>]
                       IN  Write(Write(emptied, j + 1, filled), j, SubSeq(p, avail + 1, Len(p)))
             ELSE [w EXCEPT !.layers[j].buf = @ \o p]

\* bufio.Writer.Flush on layer j: its buffer is written to the layer below,
\* which is not flushed in turn
Flush(w, j) ==
    IF Len(w.layers[j].buf) = 0 THEN w
    ELSE Write([w EXCEPT !.layers[j].buf = <<>>], j + 1, w.layers[j].buf)

\* a bufio.NewWriter that always puts a new buffer on top
NewWriter_AlwaysWraps(w) ==
    [w EXCEPT !.layers = <<[buf |-> <<>>, size |-> WriterSize]>> \o @]

\* lines 152-153: bufio.NewWriter(f), and bufio.NewWriter(b) inside
\* toml.NewEncoder. NewWriter hands back its argument when that is already
\* a bufio.Writer of at least the default size
NewWriter(w) ==
    IF Len(w.layers) > 0 /\ w.layers[1].size >= WriterSize THEN w
    ELSE [w EXCEPT !.layers = <<[buf |-> <<>>, size |-> WriterSize]>> \o @]

\* Encoder.Encode: every line is written to the encoder's writer, which is
\* flushed at the end
RECURSIVE WriteLines(_, _, _)
WriteLines(w, lines, i) ==
    IF i > Len(lines) THEN w
    ELSE WriteLines(Write(w, 1, <<lines[i]>>), lines, i + 1)
Encode(w, d) == Flush(WriteLines(w, EncodedLines(d), 1), 1)

\* lines 144-164 once os.Create has given an empty file: what is in the
\* file when the deferred f.Close() has run
write(d) ==
    LET f == NoLayers
        b == NewWriter(f)
        w == NewWriter(b)
    IN  Encode(w, d).out

\* ----- toml.Unmarshal into a defaults struct
\* a value put into a field: a pointer to the string, or to the boolean
Parsed(val) == IF val.type = "bool" THEN Ptr(val.text = "true") ELSE Ptr(val.text)

\* line by line: a header selects the table, a key line sets the field of the
\* selected table; a sub-table of Instances makes the map entry
RECURSIVE Unmarshal(_, _, _, _)
Unmarshal(lines, i, cur, d) ==
    IF i > Len(lines) THEN d
    ELSE LET l == lines[i]
         IN  IF l.kind = "table"
             THEN IF Len(l.path) = 2 /\ l.path[2] \notin DOMAIN d.Instances
                  THEN Unmarshal(lines, i + 1, l.path,
                           [d EXCEPT !.nilMap = FALSE,
                                     !.Instances = [k \in DOMAIN @ \cup {l.path[2]} |->
                                         IF k = l.path[2] THEN ZeroSettings ELSE @[k]]])
                  ELSE Unmarshal(lines, i + 1, l.path, [d EXCEPT !.nilMap = FALSE])
             ELSE IF cur = <<>>
                  THEN Unmarshal(lines, i + 1, cur, [d EXCEPT !.DefaultInstanceID = l.val.text])
                  ELSE IF Len(cur) = 2
                  THEN Unmarshal(lines, i + 1, cur,
                           [d EXCEPT !.Instances[cur[2]][l.key] = Parsed(l.val)])
                  ELSE Unmarshal(lines, i + 1, cur, d)

NoFile == [exists |-> FALSE, data |-> <<>>]
OldFile == [exists |-> TRUE,
            data |-> EncodedLines([DefaultInstanceID |-> InstanceIDs[2], nilMap |-> FALSE,
                                   Instances |-> [k \in IDSet |-> GoodSettings]])]

\* lines 111-130 for a receiver d: a missing file leaves the map nil; a file
\* that cannot be read returns the error of os.Stat, which is nil, and leaves
\* d as it was; else the map is made and the file unmarshalled into d
read(d, f, readable) ==
    IF ~f.exists THEN [d |-> [d EXCEPT !.nilMap = TRUE, !.Instances = <<>>], err |-> "nil"]
    ELSE IF ~readable THEN [d |-> d, err |-> "nil"]
    ELSE [d |-> Unmarshal(f.data, 1, <<>>, [d EXCEPT !.nilMap = FALSE, !.Instances = <<>>]),
          err |-> "nil"]

\* --------------------------------------------------------------------- Init
InitProgram ==
    /\ cred \in [SSHHostKey : HostKeyTexts, pem : PemStates]
    /\ resource \in {"absent", "stopped", "running"}
    /\ pc = "main"
    /\ steps = <<>>
    /\ okSteps = 0
    /\ queryRunning = FALSE
    /\ addrInfo = "none"
    /\ instanceIP = NilPtr
    /\ cmdClient = "nil"
    /\ transport = "none"
    /\ dial = NoDial
    /\ dials = 0
    /\ mrErr = "pending"
    /\ cpc = "idle"
    /\ caller = "none"
    /\ curOpened = 0
    /\ curCloses = 0
    /\ subOpen = 0
    /\ outcome = NoOutcome
    /\ result = NoResult
    /\ ops = 0
    /\ debug = FALSE
    /\ issued = <<>>
    /\ mlog = <<>>
    /\ mstep = 0
    /\ exitHow = "none"
    /\ closes = 0
    /\ closeErr = "none"
    /\ localSrc = "none"
    /\ srcKind = "none"
    /\ payload = <<>>
    /\ sent = <<>>
    /\ remoteFile = [p \in Paths |-> OldContent]
    /\ chanData = <<>>
    /\ lastUpload = NoUpload
    /\ method = "none"
    /\ arg = NoArg
    /\ bg = NoProcess

\* one environment, for the functions of the config package, which never
\* look at the instance or at the credentials
OneEnvironment ==
    /\ cred = [SSHHostKey |-> [alg |-> "ssh-rsa", blob |-> 1], pem |-> "ok"]
    /\ resource = "running"

\* GetSettings has returned no error: the settings are in hand and the
\* defaults structures are not in play
InitConfig ==
    /\ settings = GoodSettings
    /\ cfgpc = "proceed"
    /\ cfgErr = "nil"
    /\ dflt = ZeroDefaults
    /\ file = NoFile
    /\ loaded = ZeroDefaults

\* the state after construction: no call under way
Init ==
    /\ InitProgram
    /\ InitConfig
    /\ dest = NoPath
    /\ cmd = <<>>

\* ------------------------------------------------------ NewEC2RemoteClient
\* session.NewSession() of the AWS SDK; on error nothing else happens
NewEC2RemoteClient ==
    /\ pc = "main"
    /\ \E ok \in BOOLEAN :
        IF ok THEN pc' = "mr_query" /\ UNCHANGED mrErr
        ELSE pc' = "returned" /\ mrErr' = "err"
    /\ UNCHANGED <<cred, cfgVars, logVars, procVars, fileVars, drvVars, resource, steps, okSteps, queryRunning, addrInfo,
                   instanceIP, ops>>
    /\ UNCHANGED sshVars
    /\ UNCHANGED callVars

\* ---------------------------------------------------------------- makeReady
\* DescribeInstanceStatus as the control plane answers it: an error for an
\* unknown instance (or any API failure); otherwise a list of statuses, empty
\* for an instance that is not running
DescribeInstanceStatusAnswers(res) ==
    {[err |-> TRUE, statuses |-> <<>>]}
        \cup (IF res = "absent" THEN {}
              ELSE IF res = "running" THEN {[err |-> FALSE, statuses |-> <<"running">>]}
              ELSE {[err |-> FALSE, statuses |-> st] : st \in {<<>>, <<"pending">>}})

\* a start condition that starts the instance whatever the query said
StartNeeded_Always(statuses) == TRUE

\* a start condition that forgets the empty status list
StartNeeded_OnlyWhenListed(statuses) ==
    Len(statuses) > 0 /\ statuses[1] # "running"

\* line 92: the condition under which the instance is started
StartNeeded(statuses) ==
    Len(statuses) = 0 \/ statuses[1] # "running"

\* a status query whose error is not looked at
QueryNext_NoErrCheck(ans) ==
    IF StartNeeded(ans.statuses) THEN "mr_start" ELSE "mr_resolve"

\* lines 87-97: where makeReady goes after the status query
QueryNext(ans) ==
    IF ans.err THEN "returned"
    ELSE IF StartNeeded(ans.statuses) THEN "mr_start"
    ELSE "mr_resolve"

\* lines 85-92
makeReadyQuery ==
    /\ pc = "mr_query"
    /\ steps' = Append(steps, "query")
    /\ \E ans \in DescribeInstanceStatusAnswers(resource) :
        /\ pc' = QueryNext(ans)
        /\ queryRunning' = (~ans.err /\ ans.statuses = <<"running">>)
        /\ IF pc' = "returned"
           THEN mrErr' = "err" /\ UNCHANGED okSteps
           ELSE okSteps' = okSteps + 1 /\ UNCHANGED mrErr
    /\ UNCHANGED <<cred, cfgVars, logVars, procVars, fileVars, drvVars, resource, addrInfo, instanceIP, ops>>
    /\ UNCHANGED sshVars
    /\ UNCHANGED callVars

\* startInstance, first half: StartInstances
startInstanceStart ==
    /\ pc = "mr_start"
    /\ steps' = Append(steps, "start")
    /\ \E ok \in BOOLEAN :
        IF ok
        THEN /\ okSteps' = okSteps + 1
             /\ pc' = "mr_wait"
             /\ UNCHANGED mrErr
        ELSE /\ pc' = "returned"
             /\ mrErr' = "err"
             /\ UNCHANGED okSteps
    /\ UNCHANGED <<cred, cfgVars, logVars, procVars, fileVars, drvVars, resource, queryRunning, addrInfo, instanceIP, ops>>
    /\ UNCHANGED sshVars
    /\ UNCHANGED callVars

\* a readiness wait whose error is not looked at
startInstanceWait_IgnoresError ==
    /\ pc = "mr_wait"
    /\ steps' = Append(steps, "wait")
    /\ \E ok \in BOOLEAN :
        IF ok
        THEN /\ okSteps' = okSteps + 1
             /\ resource' = "running"
             /\ UNCHANGED mrErr
        ELSE UNCHANGED <<okSteps, resource, mrErr>>
    /\ pc' = "mr_resolve"
    /\ UNCHANGED <<cred, cfgVars, logVars, procVars, fileVars, drvVars, queryRunning, addrInfo, instanceIP, ops>>
    /\ UNCHANGED sshVars
    /\ UNCHANGED callVars

\* startInstance, second half: WaitUntilInstanceStatusOk
startInstanceWait ==
    /\ pc = "mr_wait"
    /\ steps' = Append(steps, "wait")
    /\ \E ok \in BOOLEAN :
        IF ok
        THEN /\ okSteps' = okSteps + 1
             /\ resource' = "running"
             /\ pc' = "mr_resolve"
             /\ UNCHANGED mrErr
        ELSE /\ pc' = "returned"
             /\ mrErr' = "err"
             /\ UNCHANGED <<okSteps, resource>>
    /\ UNCHANGED <<cred, cfgVars, logVars, procVars, fileVars, drvVars, queryRunning, addrInfo, instanceIP, ops>>
    /\ UNCHANGED sshVars
    /\ UNCHANGED callVars

\* the answers DescribeInstances can give: an API error, or reservations
\* (a list of lists of instances, each with a PublicIpAddress pointer)
DescribeAnswers ==
    {[err |-> TRUE, reservations |-> <<>>]}
        \cup {[err |-> FALSE, reservations |-> r] :
                r \in {<<>>, << <<>> >>} \cup {<< <<p>> >> : p \in PublicIpValues}}

\* how the expression *result.Reservations[0].Instances[0].PublicIpAddress
\* evaluates: a run-time fault when an index or the pointer is absent
AddressFaults(a) ==
    \/ Len(a.reservations) = 0
    \/ Len(a.reservations[1]) = 0
    \/ a.reservations[1][1] = NilPtr

AddrInfoOf(a) ==
    IF a.err THEN "apierr"
    ELSE IF Len(a.reservations) = 0 \/ Len(a.reservations[1]) = 0 THEN "norecord"
    ELSE IF a.reservations[1][1] = NilPtr THEN "noaddr"
    ELSE IF ParseIP(a.reservations[1][1]) = NilPtr THEN "badaddr"
    ELSE "addr"

getIPAddress ==
    /\ pc = "mr_resolve"
    /\ steps' = Append(steps, "resolve")
    /\ \E a \in DescribeAnswers :
        /\ addrInfo' = AddrInfoOf(a)
        /\ IF a.err
           THEN /\ pc' = "returned"
                /\ mrErr' = "err"
                /\ UNCHANGED <<okSteps, instanceIP>>
           ELSE IF AddressFaults(a)
           THEN /\ pc' = "crashed"
                /\ mrErr' = "panic"
                /\ UNCHANGED <<okSteps, instanceIP>>
           ELSE /\ instanceIP' = ParseIP(a.reservations[1][1])
                /\ IF instanceIP' = NilPtr
                   THEN /\ pc' = "returned"
                        /\ mrErr' = "err"
                        /\ UNCHANGED okSteps
                   ELSE /\ pc' = "ssh_parse"
                        /\ okSteps' = okSteps + 1
                        /\ UNCHANGED mrErr
    /\ UNCHANGED <<cred, cfgVars, logVars, procVars, fileVars, drvVars, resource, queryRunning, ops>>
    /\ UNCHANGED sshVars
    /\ UNCHANGED callVars

\* ---------------------------------------------------------- NewSSHCmdClient
\* line 62: only the algorithm of the expected key is offered
HostKeyAlgorithms(hostKey) == {hostKey.type}

\* a host-key callback that accepts whatever the host presents
FixedHostKey_AcceptAny(hostKey, presented) == TRUE

\* line 61: ssh.FixedHostKey accepts exactly the expected key
FixedHostKey(hostKey, presented) == presented = hostKey

\* ssh.Dial succeeds when the host is reachable, presents a key of an offered
\* algorithm that the host-key callback accepts, and accepts the user's key
DialSucceeds(hostKey, d) ==
    /\ d.net
    /\ d.presented.type \in HostKeyAlgorithms(hostKey)
    /\ FixedHostKey(hostKey, d.presented)
    /\ d.auth

\* a parse whose error is left for the connection to find
NewSSHCmdClientParse_Deferred ==
    /\ pc = "ssh_parse"
    /\ steps' = Append(steps, "open")
    /\ pc' = "ssh_auth"
    /\ UNCHANGED <<cred, cfgVars, logVars, procVars, fileVars, drvVars, resource, okSteps, queryRunning, addrInfo, instanceIP,
                   mrErr, ops>>
    /\ UNCHANGED sshVars
    /\ UNCHANGED callVars

\* lines 52-55: parse the expected host key; a parse error returns at once
NewSSHCmdClientParse ==
    /\ pc = "ssh_parse"
    /\ steps' = Append(steps, "open")
    /\ IF ParseAuthorizedKey(cred.SSHHostKey).err
       THEN /\ pc' = "returned"
            /\ mrErr' = "err"
       ELSE /\ pc' = "ssh_auth"
            /\ UNCHANGED mrErr
    /\ UNCHANGED <<cred, cfgVars, logVars, procVars, fileVars, drvVars, resource, okSteps, queryRunning, addrInfo, instanceIP, ops>>
    /\ UNCHANGED sshVars
    /\ UNCHANGED callVars

\* lines 41-51 called from line 59: read and parse the PEM file, panic on
\* either failure
NewSSHCmdClientAuth ==
    /\ pc = "ssh_auth"
    /\ IF cred.pem = "ok"
       THEN /\ pc' = "ssh_dial"
            /\ UNCHANGED mrErr
       ELSE /\ pc' = "crashed"
            /\ mrErr' = "panic"
    /\ UNCHANGED <<cred, cfgVars, logVars, procVars, fileVars, drvVars, resource, ops>>
    /\ UNCHANGED mrVars
    /\ UNCHANGED sshVars
    /\ UNCHANGED callVars

\* lines 64-71: ssh.Dial; the host decides reachability, the key it presents
\* and whether it accepts the user
NewSSHCmdClientDial ==
    /\ pc = "ssh_dial"
    /\ dials' = dials + 1
    /\ \E n \in BOOLEAN, a \in BOOLEAN, k \in Keys :
        LET d == [done |-> TRUE, net |-> n, auth |-> a, presented |-> k]
            hostKey == ParseAuthorizedKey(cred.SSHHostKey).key
        IN  /\ dial' = d
            /\ IF DialSucceeds(hostKey, d)
               THEN /\ cmdClient' = "client"
                    /\ transport' = "open"
                    /\ okSteps' = okSteps + 1
                    /\ pc' = "mr_probe"
                    /\ UNCHANGED mrErr
               ELSE /\ pc' = "returned"
                    /\ mrErr' = "err"
                    /\ UNCHANGED <<cmdClient, transport, okSteps>>
    /\ UNCHANGED <<cred, cfgVars, logVars, procVars, fileVars, drvVars, resource, steps, queryRunning, addrInfo, instanceIP, ops>>
    /\ UNCHANGED callVars

\* ------------------------------------------------- RunCommandWithOutput
\* a switch that keeps the ExitError as the returned error
ExitStatusSwitch_KeepsExitError(runErr) ==
    CASE runErr.type = "nil" -> [exitStatus |-> 0, err |-> "nil"]
      [] runErr.type = "ExitError" -> [exitStatus |-> runErr.status, err |-> "ExitError"]
      [] runErr.type = "ExitMissingError" ->
            [exitStatus |-> statusMissingStatus, err |-> "ExitMissingError"]
      [] OTHER -> [exitStatus |-> statusCmdFailedStatus, err |-> "io"]

\* a switch that clears every error it has mapped to a status
ExitStatusSwitch_ClearsAll(runErr) ==
    CASE runErr.type = "nil" -> [exitStatus |-> 0, err |-> "nil"]
      [] runErr.type = "ExitError" -> [exitStatus |-> runErr.status, err |-> "nil"]
      [] runErr.type = "ExitMissingError" ->
            [exitStatus |-> statusMissingStatus, err |-> "nil"]
      [] OTHER -> [exitStatus |-> statusCmdFailedStatus, err |-> "nil"]

\* lines 108-118: the switch on session.Run's error
ExitStatusSwitch(runErr) ==
    CASE runErr.type = "nil" -> [exitStatus |-> 0, err |-> "nil"]
      [] runErr.type = "ExitError" -> [exitStatus |-> runErr.status, err |-> "nil"]
      [] runErr.type = "ExitMissingError" ->
            [exitStatus |-> statusMissingStatus, err |-> "ExitMissingError"]
      [] OTHER -> [exitStatus |-> statusCmdFailedStatus, err |-> "io"]

\* client.NewSession: may succeed only on an open connection
NewSessionOutcomes(t) == IF t = "open" THEN BOOLEAN ELSE {FALSE}

\* entry into RunCommandWithOutput for the given caller and command line
BeginRun(who, line) ==
    /\ cpc = "idle"
    /\ cpc' = "rc_newsession"
    /\ caller' = who
    /\ curOpened' = 0
    /\ curCloses' = 0
    /\ outcome' = NoOutcome
    /\ result' = NoResult
    /\ method' = "RunCommand"
    /\ arg' = NoArg
    /\ cmd' = line
    /\ UNCHANGED <<subOpen, fileVars, bg>>

\* a wrapper that discards the output whatever it is told
BackgroundLine_AlwaysDiscard(line, discardOutput) ==
    <<"nohup bash -c '((">> \o line \o <<") &)' ">> \o <<"&>/dev/null">>

\* a wrapper that does not put the command in the background
BackgroundLine_Foreground(line, discardOutput) ==
    <<"nohup bash -c '((">> \o line \o <<"))' ">>
        \o (IF discardOutput THEN <<"&>/dev/null">> ELSE <<>>)

\* a wrapper without nohup
BackgroundLine_NoNohup(line, discardOutput) ==
    <<"bash -c '((">> \o line \o <<") &)' ">>
        \o (IF discardOutput THEN <<"&>/dev/null">> ELSE <<>>)

\* lines 128-131: fmt.Sprintf("nohup bash -c '((%s) &)' ", cmd), and
\* "&>/dev/null" after it when discardOutput is set
BackgroundLine(line, discardOutput) ==
    <<"nohup bash -c '((">> \o line \o <<") &)' ">>
        \o (IF discardOutput THEN <<"&>/dev/null">> ELSE <<>>)

\* lines 127-133: BackgroundCommand is RunCommand of the wrapped line
BeginBackground(who, line, discardOutput) ==
    /\ cpc = "idle"
    /\ cpc' = "rc_newsession"
    /\ caller' = who
    /\ curOpened' = 0
    /\ curCloses' = 0
    /\ outcome' = NoOutcome
    /\ result' = NoResult
    /\ method' = "BackgroundCommand"
    /\ arg' = [cmd |-> line, discardOutput |-> discardOutput]
    /\ cmd' = BackgroundLine(line, discardOutput)
    /\ UNCHANGED <<subOpen, fileVars, bg>>

\* the remote shell: a line whose command stands in "( ... &)" leaves the
\* command running and goes on at once
Detaches(line) == \E i \in 1..Len(line) : line[i] = ") &)' "

\* nohup makes what it runs, and all that inherits from it, ignore SIGHUP
HupProof(line) == line # <<>> /\ line[1] = "nohup bash -c '(("

Launched(line) == [state |-> "running", hupProof |-> HupProof(line)]

\* session.Run of a line, as the remote end can answer it, with the detached
\* process it leaves (b is the one there was). A detaching line exits 0 as
\* soon as the command is started and never reports the command's own end;
\* it fails only if the wrapper cannot run. When the connection fails the
\* status is lost, the command started or not. Any other line is waited for.
RemoteRun(line, b) ==
    IF Detaches(line)
    THEN {[outcome |-> [kind |-> "exit", code |-> 0], bg |-> Launched(line)]}
         \cup {[outcome |-> o, bg |-> b] :
                  o \in RemoteOutcomes \ {[kind |-> "exit", code |-> 0]}}
         \cup {[outcome |-> o, bg |-> Launched(line)] :
                  o \in [kind : {"missing", "io"}, code : {0}]}
    ELSE {[outcome |-> o, bg |-> b] : o \in RemoteOutcomes}

\* the end of a terminal session: SIGHUP to what ran in it
HangUp(b) ==
    IF b.state = "running" /\ ~b.hupProof THEN [b EXCEPT !.state = "killed"] ELSE b

\* lines 83-87
rcNewSession ==
    /\ cpc = "rc_newsession"
    /\ \E ok \in NewSessionOutcomes(transport) :
        IF ok
        THEN /\ curOpened' = curOpened + 1
             /\ subOpen' = subOpen + 1
             /\ cpc' = "rc_pty"
             /\ UNCHANGED <<outcome, result>>
        ELSE /\ outcome' = [kind |-> "nosession", code |-> 0]
             /\ result' = [exitStatus |-> -1, err |-> "session"]
             /\ cpc' = "rc_ret"
             /\ UNCHANGED <<curOpened, subOpen>>
    /\ UNCHANGED <<cred, cfgVars, logVars, procVars, fileVars, drvVars, resource, pc, mrErr, ops, caller, curCloses>>
    /\ UNCHANGED mrVars
    /\ UNCHANGED sshVars

\* a pseudo-terminal failure that returns without the session being closed
rcRequestPty_NoClose ==
    /\ cpc = "rc_pty"
    /\ \E ok \in BOOLEAN :
        IF ok
        THEN /\ cpc' = "rc_run"
             /\ result' = [exitStatus |-> 0, err |-> "nil"]
             /\ UNCHANGED outcome
        ELSE /\ outcome' = [kind |-> "nopty", code |-> 0]
             /\ result' = [exitStatus |-> -1, err |-> "pty"]
             /\ cpc' = "rc_ret"
    /\ UNCHANGED <<cred, cfgVars, logVars, procVars, fileVars, drvVars, resource, pc, mrErr, ops, caller, curOpened, curCloses, subOpen>>
    /\ UNCHANGED mrVars
    /\ UNCHANGED sshVars

\* lines 94-103
rcRequestPty ==
    /\ cpc = "rc_pty"
    /\ \E ok \in BOOLEAN :
        IF ok
        THEN /\ cpc' = "rc_run"
             /\ result' = [exitStatus |-> 0, err |-> "nil"]
             /\ UNCHANGED outcome
        ELSE /\ outcome' = [kind |-> "nopty", code |-> 0]
             /\ result' = [exitStatus |-> -1, err |-> "pty"]
             /\ cpc' = "rc_defer"
    /\ UNCHANGED <<cred, cfgVars, logVars, procVars, fileVars, drvVars, resource, pc, mrErr, ops, caller, curOpened, curCloses, subOpen>>
    /\ UNCHANGED mrVars
    /\ UNCHANGED sshVars

\* lines 108-120
rcRun ==
    /\ cpc = "rc_run"
    /\ \E r \in RemoteRun(cmd, bg) :
        /\ outcome' = r.outcome
        /\ result' = ExitStatusSwitch(SessionRun(r.outcome))
        /\ bg' = r.bg
    /\ cpc' = "rc_defer"
    /\ UNCHANGED <<cred, cfgVars, logVars, method, arg, cmd, fileVars, drvVars, resource, pc, mrErr, ops, caller, curOpened, curCloses, subOpen>>
    /\ UNCHANGED mrVars
    /\ UNCHANGED sshVars

\* line 87: the deferred session.Close() runs as the function returns
rcDeferClose ==
    /\ cpc = "rc_defer"
    /\ curCloses' = curCloses + 1
    /\ subOpen' = subOpen - 1
    /\ bg' = HangUp(bg)
    /\ cpc' = "rc_ret"
    /\ UNCHANGED <<cred, cfgVars, logVars, method, arg, cmd, fileVars, drvVars, resource, pc, mrErr, ops, caller, curOpened, outcome, result>>
    /\ UNCHANGED mrVars
    /\ UNCHANGED sshVars

\* ------------------------------------------------------------- writeToFile
\* lines 158-160: WriteBytesToFile wraps the bytes in a reader
BeginWrite(who, path, data) ==
    /\ cpc = "idle"
    /\ cpc' = "wf_newsession"
    /\ caller' = who
    /\ curOpened' = 0
    /\ curCloses' = 0
    /\ outcome' = NoOutcome
    /\ result' = NoResult
    /\ srcKind' = "bytes"
    /\ method' = "WriteBytesToFile"
    /\ arg' = NoArg
    /\ cmd' = <<>>
    /\ UNCHANGED bg
    /\ payload' = data
    /\ sent' = <<>>
    /\ dest' = path
    /\ localSrc' = "none"
    /\ lastUpload' = NoUpload
    /\ UNCHANGED <<subOpen, remoteFile, chanData>>

\* entry into CopyFile
BeginCopy(who, path) ==
    /\ cpc = "idle"
    /\ cpc' = "cf_stat"
    /\ caller' = who
    /\ curOpened' = 0
    /\ curCloses' = 0
    /\ outcome' = NoOutcome
    /\ result' = NoResult
    /\ srcKind' = "file"
    /\ method' = "CopyFile"
    /\ arg' = NoArg
    /\ cmd' = <<>>
    /\ UNCHANGED bg
    /\ payload' = <<>>
    /\ sent' = <<>>
    /\ dest' = path
    /\ localSrc' = "none"
    /\ lastUpload' = NoUpload
    /\ UNCHANGED <<subOpen, remoteFile, chanData>>

\* a source check that lets anything that exists through
CopyFileSourceError_NoRegularCheck(src) ==
    CASE src = "missing" -> "stat"
      [] src = "unreadable" -> "open"
      [] OTHER -> "nil"

\* lines 137-147: os.Stat, Mode().IsRegular() and os.Open on the source
CopyFileSourceError(src) ==
    CASE src = "missing" -> "stat"
      [] src \in {"directory", "device"} -> "notregular"
      [] src = "unreadable" -> "open"
      [] OTHER -> "nil"

\* lines 137-150: CopyFile returns an error for a bad source, else hands the
\* open file to writeToFile
cfStat ==
    /\ cpc = "cf_stat"
    /\ \E src \in LocalSources, data \in Payloads :
        /\ localSrc' = src
        /\ IF CopyFileSourceError(src) # "nil"
           THEN /\ result' = [exitStatus |-> 0, err |-> CopyFileSourceError(src)]
                /\ outcome' = [kind |-> "badsource", code |-> 0]
                /\ cpc' = "cf_ret"
                /\ UNCHANGED payload
           ELSE /\ payload' = data
                /\ cpc' = "wf_newsession"
                /\ UNCHANGED <<result, outcome>>
    /\ UNCHANGED <<cred, cfgVars, logVars, procVars, drvVars, resource, pc, mrErr, ops, caller, curOpened,
                   curCloses, subOpen, srcKind, sent, dest, remoteFile, chanData, lastUpload>>
    /\ UNCHANGED mrVars
    /\ UNCHANGED sshVars

\* lines 168-172
wfNewSession ==
    /\ cpc = "wf_newsession"
    /\ \E ok \in NewSessionOutcomes(transport) :
        IF ok
        THEN /\ curOpened' = curOpened + 1
             /\ subOpen' = subOpen + 1
             /\ cpc' = "wf_pipe"
             /\ UNCHANGED <<outcome, result>>
        ELSE /\ outcome' = [kind |-> "nosession", code |-> 0]
             /\ result' = [exitStatus |-> 0, err |-> "session"]
             /\ cpc' = "wf_ret"
             /\ UNCHANGED <<curOpened, subOpen>>
    /\ UNCHANGED <<cred, cfgVars, logVars, procVars, fileVars, drvVars, resource, pc, mrErr, ops, caller, curCloses>>
    /\ UNCHANGED mrVars
    /\ UNCHANGED sshVars

\* lines 176-179: session.StdinPipe()
wfStdinPipe ==
    /\ cpc = "wf_pipe"
    /\ \E ok \in BOOLEAN :
        IF ok
        THEN /\ cpc' = "wf_start"
             /\ UNCHANGED <<outcome, result>>
        ELSE /\ outcome' = [kind |-> "stdinpipe", code |-> 0]
             /\ result' = [exitStatus |-> 0, err |-> "stdinpipe"]
             /\ cpc' = "wf_defer"
    /\ UNCHANGED <<cred, cfgVars, logVars, procVars, fileVars, drvVars, resource, pc, mrErr, ops, caller, curOpened, curCloses, subOpen>>
    /\ UNCHANGED mrVars
    /\ UNCHANGED sshVars

\* characters of a path: a letter, the single quote, and three that an
\* unquoted shell word would not keep: blank, backslash, dollar
PathChars == {"w", "'", " ", "\\", "$"}
MaxPath == 3         \* longest destination explored
Destinations == SeqsUpTo(PathChars, MaxPath)

\* strings.Replace(s, "'", "'\\''", -1): every quote becomes quote, backslash,
\* quote, quote
RECURSIVE ReplaceQuotes(_)
ReplaceQuotes(str) ==
    IF str = <<>> THEN <<>>
    ELSE (IF Head(str) = "'" THEN <<"'", "\\", "'", "'">> ELSE <<Head(str)>>)
         \o ReplaceQuotes(Tail(str))

CatTo == <<"c", "a", "t", " ", ">">>

\* a command line that puts the destination between quotes as it is
WriteCommand_NoEscape(destination) == CatTo \o <<"'">> \o destination \o <<"'">>

\* line 174: cmd := "cat >'" + strings.Replace(destination, ...) + "'"
WriteCommand(destination) ==
    CatTo \o <<"'">> \o ReplaceQuotes(destination) \o <<"'">>

\* characters that end or alter an unquoted shell word
ShellMeta == {" ", "$", ">", "<", "|", "&", ";", "(", ")"}

\* the POSIX shell reading one word of str from position i: inside single
\* quotes every character stands for itself up to the closing quote; outside,
\* a quote opens a quoted part, a backslash makes the next character stand
\* for itself, and a blank or metacharacter is not part of the word.
\* bare counts the characters taken outside quotes with no backslash.
RECURSIVE ShellWord(_, _, _, _, _)
ShellWord(str, i, inQuote, word, bare) ==
    IF i > Len(str)
    THEN [word |-> word, wellFormed |-> ~inQuote, bare |-> bare]
    ELSE IF inQuote
    THEN IF str[i] = "'"
         THEN ShellWord(str, i + 1, FALSE, word, bare)
         ELSE ShellWord(str, i + 1, TRUE, Append(word, str[i]), bare)
    ELSE IF str[i] = "'"
    THEN ShellWord(str, i + 1, TRUE, word, bare)
    ELSE IF str[i] = "\\"
    THEN IF i = Len(str)
         THEN [word |-> word, wellFormed |-> FALSE, bare |-> bare]
         ELSE ShellWord(str, i + 2, FALSE, Append(word, str[i + 1]), bare)
    ELSE IF str[i] \in ShellMeta
    THEN [word |-> word, wellFormed |-> FALSE, bare |-> bare + 1]
    ELSE ShellWord(str, i + 1, FALSE, Append(word, str[i]), bare + 1)

\* the remote shell reading the line writeToFile starts: cat, the redirection
\* operator, and the rest of the line as the word naming the file
ShellRedirect(line) ==
    IF Len(line) >= Len(CatTo) /\ SubSeq(line, 1, Len(CatTo)) = CatTo
    THEN ShellWord(line, Len(CatTo) + 1, FALSE, <<>>, 0)
    ELSE [word |-> NoPath, wellFormed |-> FALSE, bare |-> 0]

\* the file the shell opens for the line, if the line is one it can run
RedirectTarget(line) ==
    IF ShellRedirect(line).wellFormed THEN ShellRedirect(line).word ELSE NoPath

\* how the remote command of an upload can end: a line the shell cannot
\* read never exits 0
WriteOutcomes(line) ==
    IF ShellRedirect(line).wellFormed THEN RemoteOutcomes
    ELSE RemoteOutcomes \ {[kind |-> "exit", code |-> 0]}

\* the remote files after the shell has opened path for writing
Truncated(files, path) ==
    IF path \in DOMAIN files THEN [files EXCEPT ![path] = <<>>] ELSE files

\* the remote files after cat has written data to path
Appended(files, path, data) ==
    IF path \in DOMAIN files THEN [files EXCEPT ![path] = @ \o data] ELSE files

\* lines 174-184: session.Start("cat >'<destination>'"); the remote shell
\* opens the destination for writing, which empties it, and cat starts
wfStart ==
    /\ cpc = "wf_start"
    /\ \E ok \in BOOLEAN :
        IF ok
        THEN /\ cpc' = "wf_copy"
             /\ remoteFile' = Truncated(remoteFile, RedirectTarget(WriteCommand(dest)))
             /\ UNCHANGED <<outcome, result>>
        ELSE /\ outcome' = [kind |-> "start", code |-> 0]
             /\ result' = [exitStatus |-> 0, err |-> "start"]
             /\ cpc' = "wf_defer"
             /\ UNCHANGED remoteFile
    /\ cmd' = WriteCommand(dest)
    /\ UNCHANGED <<cred, cfgVars, logVars, method, arg, bg, drvVars, resource, pc, mrErr, ops, caller, curOpened,
                   curCloses, subOpen, localSrc, srcKind, payload, sent, dest, chanData, lastUpload>>
    /\ UNCHANGED mrVars
    /\ UNCHANGED sshVars

Min(a, b) == IF a < b THEN a ELSE b

\* buffers io.Copy needs for the whole source
NumChunks(data) == (Len(data) + BufSize - 1) \div BufSize

\* a copy that takes the source for a null-terminated string
SentBytes_UntilNull(data, n) ==
    LET nulls == {i \in 1..Len(data) : data[i] = 0}
        upto == IF nulls = {} THEN Len(data)
                ELSE (CHOOSE i \in nulls : \A j \in nulls : i <= j) - 1
    IN  SubSeq(data, 1, Min(n * BufSize, upto))

\* line 185: what io.Copy has sent after n buffers: every byte read, in
\* order, a last short buffer included
SentBytes(data, n) == SubSeq(data, 1, Min(n * BufSize, Len(data)))

\* why io.Copy can stop early: the source fails to read (a file only; a
\* bytes.Reader never fails), or the write into the sub-session fails
CopyStops(kind) == IF kind = "file" THEN {"readerr", "writeerr"} ELSE {"writeerr"}

\* line 185: io.Copy(stdinPipe, source); its byte count and error are dropped
wfCopy ==
    /\ cpc = "wf_copy"
    /\ \E n \in 0..NumChunks(payload) :
        /\ sent' = SentBytes(payload, n)
        /\ chanData' = SentBytes(payload, n)
        /\ IF n = NumChunks(payload)
           THEN outcome' = [kind |-> "copied", code |-> 0]
           ELSE \E why \in CopyStops(srcKind) : outcome' = [kind |-> why, code |-> 0]
    /\ cpc' = "wf_closepipe"
    /\ UNCHANGED <<cred, cfgVars, logVars, procVars, drvVars, resource, pc, mrErr, ops, caller, curOpened, curCloses,
                   subOpen, result, localSrc, srcKind, payload, dest, remoteFile, lastUpload>>
    /\ UNCHANGED mrVars
    /\ UNCHANGED sshVars

\* stdinPipe.Close() sends end-of-file on the channel; on a channel whose
\* write has already failed (closed by the peer, or the connection lost) the
\* message cannot be sent and Close fails as well
ClosePipeOutcomes(o) == IF o.kind = "writeerr" THEN {FALSE} ELSE BOOLEAN

\* lines 186-189: stdinPipe.Close()
wfClosePipe ==
    /\ cpc = "wf_closepipe"
    /\ \E ok \in ClosePipeOutcomes(outcome) :
        IF ok
        THEN cpc' = "wf_wait" /\ UNCHANGED result
        ELSE cpc' = "wf_defer" /\ result' = [exitStatus |-> 0, err |-> "closepipe"]
    /\ UNCHANGED <<cred, cfgVars, logVars, procVars, fileVars, drvVars, resource, pc, mrErr, ops, caller, curOpened, curCloses,
                   subOpen, outcome>>
    /\ UNCHANGED mrVars
    /\ UNCHANGED sshVars

\* a return that does not wait for the remote command
wfWait_NoWait ==
    /\ cpc = "wf_wait"
    /\ result' = [exitStatus |-> 0, err |-> "nil"]
    /\ cpc' = "wf_defer"
    /\ UNCHANGED <<cred, cfgVars, logVars, procVars, fileVars, drvVars, resource, pc, mrErr, ops, caller, curOpened, curCloses,
                   subOpen, outcome>>
    /\ UNCHANGED mrVars
    /\ UNCHANGED sshVars

\* lines 191-192: session.Wait() blocks until the remote cat has ended and
\* returns its error as it is. A cat that exits 0 has read to end-of-file and
\* written every byte sent; one that ends otherwise has written some prefix.
wfWait ==
    /\ cpc = "wf_wait"
    /\ \E o \in WriteOutcomes(cmd) :
        /\ result' = [exitStatus |-> 0,
                      err |-> IF SessionRun(o).type = "nil" THEN "nil"
                              ELSE SessionRun(o).type]
        /\ IF o.kind = "exit" /\ o.code = 0
           THEN remoteFile' = Appended(remoteFile, RedirectTarget(cmd), chanData)
           ELSE \E k \in 0..Len(chanData) :
                    remoteFile' = Appended(remoteFile, RedirectTarget(cmd),
                                           SubSeq(chanData, 1, k))
    /\ chanData' = <<>>
    /\ cpc' = "wf_defer"
    /\ UNCHANGED <<cred, cfgVars, logVars, procVars, drvVars, resource, pc, mrErr, ops, caller, curOpened, curCloses,
                   subOpen, outcome, localSrc, srcKind, payload, sent, dest, lastUpload>>
    /\ UNCHANGED mrVars
    /\ UNCHANGED sshVars

\* line 172: the deferred session.Close(); bytes still on their way are lost
wfDeferClose ==
    /\ cpc = "wf_defer"
    /\ curCloses' = curCloses + 1
    /\ subOpen' = subOpen - 1
    /\ chanData' = <<>>
    /\ cpc' = "wf_ret"
    /\ UNCHANGED <<cred, cfgVars, logVars, procVars, drvVars, resource, pc, mrErr, ops, caller, curOpened, outcome,
                   result, localSrc, srcKind, payload, sent, dest, remoteFile, lastUpload>>
    /\ UNCHANGED mrVars
    /\ UNCHANGED sshVars

Returned == cpc \in {"rc_ret", "wf_ret"}

\* the call is back at its caller, CopyFile's early returns included
CallDone == Returned \/ cpc = "cf_ret"

\* what is known once a call has returned: an upload that returned nil
\* (lines 150-154 and 160-161 pass writeToFile's nil on), where it went and
\* what it transferred; any other call leaves that as it was
UploadDone ==
    IF cpc = "wf_ret"
    THEN IF result.err = "nil"
         THEN [ok |-> TRUE, dest |-> dest, sent |-> sent]
         ELSE NoUpload
    ELSE lastUpload

\* nothing of a finished call is kept but what it returned to the caller
CallReturns ==
    /\ cpc' = "idle"
    /\ caller' = "none"
    /\ curOpened' = 0
    /\ curCloses' = 0
    /\ outcome' = NoOutcome
    /\ result' = NoResult
    /\ localSrc' = "none"
    /\ srcKind' = "none"
    /\ payload' = <<>>
    /\ sent' = <<>>
    /\ dest' = NoPath
    /\ lastUpload' = UploadDone
    /\ method' = "none"
    /\ arg' = NoArg
    /\ cmd' = <<>>
    /\ UNCHANGED <<subOpen, remoteFile, chanData, bg>>

\* ------------------------------------------------------- makeReady's probe
\* line 111: RunCommand("true") on the new Channel
makeReadyProbe ==
    /\ pc = "mr_probe"
    /\ steps' = Append(steps, "probe")
    /\ BeginRun("probe", <<"true">>)
    /\ pc' = "mr_probewait"
    /\ UNCHANGED <<cred, cfgVars, logVars, drvVars, resource, okSteps, queryRunning, addrInfo, instanceIP,
                   mrErr, ops>>
    /\ UNCHANGED sshVars

\* a test that looks at the transport error only
ProbeFailed_ErrOnly(r) == r.err # "nil"

\* line 112: the test applied to the probe's result
ProbeFailed(r) == r.err # "nil" \/ r.exitStatus # 0

\* lines 112-116
makeReadyProbeCheck ==
    /\ pc = "mr_probewait"
    /\ cpc = "rc_ret"
    /\ caller = "probe"
    /\ IF ProbeFailed(result)
       THEN mrErr' = "err" /\ UNCHANGED okSteps
       ELSE mrErr' = "nil" /\ okSteps' = okSteps + 1
    /\ pc' = "returned"
    /\ cpc' = "idle"
    /\ caller' = "none"
    /\ UNCHANGED <<cred, cfgVars, logVars, procVars, fileVars, drvVars, resource, steps, queryRunning, addrInfo, instanceIP, ops,
                   curOpened, curCloses, subOpen, outcome, result>>
    /\ UNCHANGED sshVars

\* ------------------------------------------------------------- the caller
\* the calls main makes on the ready instance, in program order
\* (awsRender.go: checkInstance, makeWorkingDir, lines 172-189)
MainSteps ==
    << [name |-> "check_openscad", kind |-> "run",
        line |-> <<"openscad --version &> /dev/null">>],
       [name |-> "check_awscli", kind |-> "run",
        line |-> <<"aws ec2 describe-instances --instance-id ", "InstanceID",
                   " > /dev/null">>],
       [name |-> "check_s3", kind |-> "run",
        line |-> <<"aws s3 ls ", "S3bucket", " > /dev/null">>],
       [name |-> "mktemp", kind |-> "run", line |-> <<"mktemp -d -p.">>],
       [name |-> "homedir", kind |-> "run",
        line |-> <<"env | grep HOME | cut -d'=' -f2">>],
       [name |-> "copyfile", kind |-> "copy", line |-> <<>>],
       [name |-> "writescript", kind |-> "write", line |-> <<>>],
       [name |-> "chmod", kind |-> "run", line |-> <<"chmod a+x ">> \o ScriptPath],
       [name |-> "launch", kind |-> "launch", line |-> ScriptPath] >>

\* main, lines 162-166 of awsRender.go: log.Fatal on an error, else go on
\* to checkInstance; the --debug-run flag main got from GetSettings (line 146)
\* is first looked at after this point
mainCheckErr ==
    /\ pc = "returned"
    /\ IF mrErr = "nil"
       THEN /\ pc' = "m_step"
            /\ mstep' = 1
            /\ debug' \in BOOLEAN
            /\ UNCHANGED exitHow
       ELSE /\ pc' = "exited"
            /\ exitHow' = "fatal"
            /\ UNCHANGED <<mstep, debug>>
    /\ UNCHANGED <<cred, cfgVars, logVars, procVars, fileVars, resource, mrErr, ops, closes, closeErr>>
    /\ UNCHANGED mrVars
    /\ UNCHANGED sshVars
    /\ UNCHANGED callVars

\* checkInstance, makeWorkingDir and chmod: RunCommand / RunCommandWithOutput
mainIssueRun ==
    /\ pc = "m_step"
    /\ MainSteps[mstep].kind = "run"
    /\ BeginRun("main", MainSteps[mstep].line)
    /\ pc' = "m_wait"
    /\ issued' = Append(issued, MainSteps[mstep].name)
    /\ UNCHANGED <<cred, cfgVars, mlog, drvVars, resource, mrErr, ops>>
    /\ UNCHANGED mrVars
    /\ UNCHANGED sshVars

\* line 172: CopyFile of the model file into the working directory
mainIssueCopy ==
    /\ pc = "m_step"
    /\ MainSteps[mstep].kind = "copy"
    /\ BeginCopy("main", SourcePath)
    /\ pc' = "m_wait"
    /\ issued' = Append(issued, MainSteps[mstep].name)
    /\ UNCHANGED <<cred, cfgVars, mlog, drvVars, resource, mrErr, ops>>
    /\ UNCHANGED mrVars
    /\ UNCHANGED sshVars

\* line 178: WriteBytesToFile of the run script createRunScript made
mainIssueWrite ==
    /\ pc = "m_step"
    /\ MainSteps[mstep].kind = "write"
    /\ \E script \in RunScripts : BeginWrite("main", ScriptPath, script)
    /\ pc' = "m_wait"
    /\ issued' = Append(issued, MainSteps[mstep].name)
    /\ UNCHANGED <<cred, cfgVars, mlog, drvVars, resource, mrErr, ops>>
    /\ UNCHANGED mrVars
    /\ UNCHANGED sshVars

\* a test that has the script launched whatever the flag
LaunchWanted_Always(debugRun) == TRUE

\* line 186: if !debug
LaunchWanted(debugRun) == ~debugRun

\* lines 186-192: outside debug mode the run script is launched detached
mainIssueLaunch ==
    /\ pc = "m_step"
    /\ MainSteps[mstep].kind = "launch"
    /\ LaunchWanted(debug)
    /\ BeginBackground("main", MainSteps[mstep].line, TRUE)
    /\ pc' = "m_wait"
    /\ issued' = Append(issued, MainSteps[mstep].name)
    /\ UNCHANGED <<cred, cfgVars, mlog, drvVars, resource, mrErr, ops>>
    /\ UNCHANGED mrVars
    /\ UNCHANGED sshVars

\* lines 202-206: in debug mode nothing is launched; os.Exit(0)
mainSkipLaunch ==
    /\ pc = "m_step"
    /\ MainSteps[mstep].kind = "launch"
    /\ ~LaunchWanted(debug)
    /\ pc' = "exited"
    /\ exitHow' = "exit0"
    /\ UNCHANGED <<cred, cfgVars, logVars, procVars, fileVars, resource, mrErr, ops, debug, mstep, closes, closeErr>>
    /\ UNCHANGED mrVars
    /\ UNCHANGED sshVars
    /\ UNCHANGED callVars

\* a test that looks at the error only
MainStepFatal_ErrOnly(step, r) == r.err # "nil"

\* the test main applies to a step's result before log.Fatal
\* (lines 23-28, 68-73, 173, 179, 183, 190)
MainStepFatal(step, r) ==
    IF step.kind \in {"copy", "write"} THEN r.err # "nil"
    ELSE r.err # "nil" \/ r.exitStatus # 0

\* a step returns: log.Fatal (os.Exit(1)) on failure, the next step on
\* success, os.Exit(0) after the last one (line 206). Both end the process
\* at once: the instance.Close() deferred at line 166 runs only when main
\* returns, which it never does.
mainStepReturn ==
    /\ pc = "m_wait"
    /\ CallDone
    /\ caller = "main"
    /\ CallReturns
    /\ IF MainStepFatal(MainSteps[mstep], result)
       THEN pc' = "exited" /\ exitHow' = "fatal" /\ UNCHANGED mstep
       ELSE IF mstep = Len(MainSteps)
       THEN pc' = "exited" /\ exitHow' = "exit0" /\ UNCHANGED mstep
       ELSE pc' = "m_step" /\ mstep' = mstep + 1 /\ UNCHANGED exitHow
    /\ mlog' = Append(mlog, [name |-> MainSteps[mstep].name,
                              exitStatus |-> result.exitStatus, err |-> result.err])
    /\ UNCHANGED <<cred, cfgVars, issued, resource, mrErr, ops, debug, closes, closeErr>>
    /\ UNCHANGED mrVars
    /\ UNCHANGED sshVars

\* any other caller of the package: NewEC2RemoteClient returned no error and
\* the caller goes on to use the instance
ClientReady ==
    /\ pc = "returned"
    /\ mrErr = "nil"
    /\ pc' = "ready"
    /\ UNCHANGED <<cred, cfgVars, logVars, procVars, fileVars, drvVars, resource, mrErr, ops>>
    /\ UNCHANGED mrVars
    /\ UNCHANGED sshVars
    /\ UNCHANGED callVars

\* EC2RemoteClient.RunCommand / RunCommandWithOutput on a ready instance
ClientRunCommand ==
    /\ pc = "ready"
    /\ ops < MaxOps
    /\ ops' = ops + 1
    /\ BeginRun("driver", <<"true">>)
    /\ UNCHANGED <<cred, cfgVars, logVars, drvVars, resource, pc, mrErr>>
    /\ UNCHANGED mrVars
    /\ UNCHANGED sshVars

\* EC2RemoteClient.BackgroundCommand on a ready instance (lines 138-141 of
\* ec2RunCmd.go), for a command that may never end
ClientBackgroundCommand ==
    /\ pc = "ready"
    /\ ops < MaxOps
    /\ ops' = ops + 1
    /\ \E discardOutput \in BOOLEAN :
        BeginBackground("driver", <<"sleep infinity">>, discardOutput)
    /\ UNCHANGED <<cred, cfgVars, logVars, drvVars, resource, pc, mrErr>>
    /\ UNCHANGED mrVars
    /\ UNCHANGED sshVars

\* EC2RemoteClient.WriteBytesToFile on a ready instance (lines 149-152 of
\* ec2RunCmd.go)
ClientWriteBytesToFile ==
    /\ pc = "ready"
    /\ ops < MaxOps
    /\ ops' = ops + 1
    /\ \E path \in ClientPaths, data \in Payloads : BeginWrite("driver", path, data)
    /\ UNCHANGED <<cred, cfgVars, logVars, drvVars, resource, pc, mrErr>>
    /\ UNCHANGED mrVars
    /\ UNCHANGED sshVars

\* EC2RemoteClient.CopyFile on a ready instance (lines 144-146 of ec2RunCmd.go)
ClientCopyFile ==
    /\ pc = "ready"
    /\ ops < MaxOps
    /\ ops' = ops + 1
    /\ \E path \in ClientPaths : BeginCopy("driver", path)
    /\ UNCHANGED <<cred, cfgVars, logVars, drvVars, resource, pc, mrErr>>
    /\ UNCHANGED mrVars
    /\ UNCHANGED sshVars

\* the call returns to the caller
ClientReturn ==
    /\ pc = "ready"
    /\ CallDone
    /\ caller = "driver"
    /\ CallReturns
    /\ UNCHANGED <<cred, cfgVars, logVars, drvVars, resource, pc, mrErr, ops>>
    /\ UNCHANGED mrVars
    /\ UNCHANGED sshVars

\* SSHCmdClient.Close, lines 33-36: cli.client.Conn.Close(), which closes the
\* network connection and reports an error for one that is closed already
ConnClose(t) ==
    IF t = "open" THEN "nil" ELSE "use of closed network connection"

\* EC2RemoteClient.Close -> SSHCmdClient.Close
Close ==
    /\ pc = "ready"
    /\ cpc = "idle"
    /\ closes < MaxCloses
    /\ closes' = closes + 1
    /\ closeErr' = ConnClose(transport)
    /\ transport' = "closed"
    /\ bg' = HangUp(bg)
    /\ UNCHANGED <<cred, cfgVars, logVars, method, arg, cmd, fileVars, resource, pc, mrErr, ops, debug, mstep, exitHow,
                   cmdClient, dial, dials>>
    /\ UNCHANGED mrVars
    /\ UNCHANGED callVars

\* the instance NewEC2RemoteClient hands back next to makeReady's error when
\* no SSHCmdClient was made: ins is not nil, ins.cmdClient is
AbsentChannel == mrErr = "err" /\ steps # <<>> /\ cmdClient = "nil"

\* lines 50-52 of ec2RunCmd.go on that instance: ins.cmdClient.Close() enters
\* SSHCmdClient.Close with a nil receiver, and cli.client (line 34 of
\* sshCmdClient.go) dereferences it
CloseAbsent ==
    /\ pc = "returned"
    /\ AbsentChannel
    /\ closes < MaxCloses
    /\ closes' = closes + 1
    /\ pc' = "exited"
    /\ exitHow' = "panic"
    /\ UNCHANGED <<cred, cfgVars, logVars, procVars, fileVars, resource, mrErr, ops, debug, mstep, closeErr>>
    /\ UNCHANGED mrVars
    /\ UNCHANGED sshVars
    /\ UNCHANGED callVars

\* lines 122-152 of ec2RunCmd.go on that instance. RunCommand,
\* RunCommandWithOutput, BackgroundCommand and WriteBytesToFile (source
\* "none") reach cli.client.NewSession() with a nil cli at once; CopyFile
\* first checks its local source (lines 137-147 of sshCmdClient.go), returns
\* the error of a bad source, and reaches the same dereference with a good one
DelegateAbsent ==
    /\ pc = "returned"
    /\ AbsentChannel
    /\ ops < MaxOps
    /\ ops' = ops + 1
    /\ \E src \in LocalSources \cup {"none"} :
        /\ IF src # "none" /\ CopyFileSourceError(src) # "nil"
           THEN /\ result' = [exitStatus |-> 0, err |-> CopyFileSourceError(src)]
                /\ UNCHANGED <<pc, exitHow>>
           ELSE /\ pc' = "exited"
                /\ exitHow' = "panic"
                /\ UNCHANGED result
    /\ UNCHANGED <<cred, cfgVars, logVars, procVars, debug, mstep, closes, closeErr, resource, mrErr,
                   localSrc, srcKind, payload, sent, dest, remoteFile, chanData, lastUpload,
                   cpc, caller, curOpened, curCloses, subOpen, outcome>>
    /\ UNCHANGED mrVars
    /\ UNCHANGED sshVars

\* the remote side: the detached command comes to its own end
DetachedExit ==
    /\ bg.state = "running"
    /\ bg' = [bg EXCEPT !.state = "exited"]
    /\ UNCHANGED <<cred, cfgVars, logVars, method, arg, cmd, fileVars, drvVars, resource, pc, mrErr, ops>>
    /\ UNCHANGED mrVars
    /\ UNCHANGED sshVars
    /\ UNCHANGED callVars

Next ==
    \/ NewEC2RemoteClient
    \/ makeReadyQuery
    \/ startInstanceStart
    \/ startInstanceWait
    \/ getIPAddress
    \/ NewSSHCmdClientParse
    \/ NewSSHCmdClientAuth
    \/ NewSSHCmdClientDial
    \/ makeReadyProbe
    \/ rcNewSession
    \/ rcRequestPty
    \/ rcRun
    \/ rcDeferClose
    \/ makeReadyProbeCheck
    \/ mainCheckErr
    \/ mainIssueRun
    \/ mainIssueCopy
    \/ mainIssueWrite
    \/ mainIssueLaunch
    \/ mainSkipLaunch
    \/ mainStepReturn
    \/ ClientReady
    \/ ClientRunCommand
    \/ ClientBackgroundCommand
    \/ DetachedExit
    \/ ClientWriteBytesToFile
    \/ ClientCopyFile
    \/ cfStat
    \/ wfNewSession
    \/ wfStdinPipe
    \/ wfStart
    \/ wfCopy
    \/ wfClosePipe
    \/ wfWait
    \/ wfDeferClose
    \/ ClientReturn
    \/ Close
    \/ CloseAbsent
    \/ DelegateAbsent

Spec == Init /\ [][Next]_vars

\* ----------------------------------------- the command line of an upload
\* line 174 taken by itself: writeToFile is handed any destination string
InitQuote ==
    /\ InitProgram
    /\ InitConfig
    /\ dest \in Destinations
    /\ cmd = <<>>

\* line 174: cmd is built from the destination
writeToFileCommand ==
    /\ cmd = <<>>
    /\ cmd' = WriteCommand(dest)
    /\ UNCHANGED <<cred, cfgVars, logVars, method, arg, bg, fileVars, drvVars, resource, pc, mrErr, ops>>
    /\ UNCHANGED mrVars
    /\ UNCHANGED sshVars
    /\ UNCHANGED callVars

NextQuote == writeToFileCommand

SpecQuote == InitQuote /\ [][NextQuote]_vars

\* ------------------------------------------------- GetSettings by itself
\* the merged settings are whatever the command line and the defaults gave
InitSettings ==
    /\ OneEnvironment
    /\ InitProgram
    /\ dest = NoPath
    /\ cmd = <<>>
    /\ settings \in CheckedSettings
    /\ cfgpc = "check"
    /\ cfgErr = "nil"
    /\ dflt = ZeroDefaults
    /\ file = NoFile
    /\ loaded = ZeroDefaults

\* lines 308-311: err = c.checkSettings(); GetSettings returns it when it is
\* not nil, and otherwise goes on to the defaults and the host key
GetSettingsCheck ==
    /\ cfgpc = "check"
    /\ cfgErr' = checkSettings(settings)
    /\ cfgpc' = IF cfgErr' # "nil" THEN "returned_err" ELSE "checked_ok"
    /\ UNCHANGED <<cred, logVars, procVars, fileVars, drvVars, resource, pc, mrErr, ops,
                   settings, dflt, file, loaded>>
    /\ UNCHANGED mrVars
    /\ UNCHANGED sshVars
    /\ UNCHANGED callVars

\* lines 146-149 of awsRender.go: log.Fatal when GetSettings returned an
\* error; otherwise the run proceeds with the settings
mainGetSettings ==
    /\ cfgpc \in {"returned_err", "checked_ok"}
    /\ cfgpc' = IF cfgpc = "returned_err" THEN "fatal" ELSE "proceed"
    /\ UNCHANGED <<cred, logVars, procVars, fileVars, drvVars, resource, pc, mrErr, ops,
                   settings, cfgErr, dflt, file, loaded>>
    /\ UNCHANGED mrVars
    /\ UNCHANGED sshVars
    /\ UNCHANGED callVars

NextSettings ==
    \/ GetSettingsCheck
    \/ mainGetSettings

SpecSettings == InitSettings /\ [][NextSettings]_vars

\* -------------------------------------------- the defaults file by itself
\* any defaults structure, and a defaults file that is missing or holds
\* what an earlier run left
InitDefaults ==
    /\ OneEnvironment
    /\ InitProgram
    /\ dest = NoPath
    /\ cmd = <<>>
    /\ settings = GoodSettings
    /\ cfgpc = "write"
    /\ cfgErr = "nil"
    /\ dflt \in DefaultsValues
    /\ file \in {NoFile, OldFile}
    /\ loaded = ZeroDefaults

\* lines 144-164: os.Create fails, or the file is truncated and holds what
\* the writers let through
defaultsWrite ==
    /\ cfgpc = "write"
    /\ \E created \in BOOLEAN :
        IF created
        THEN /\ file' = [exists |-> TRUE, data |-> write(dflt)]
             /\ cfgErr' = "nil"
             /\ cfgpc' = "written"
        ELSE /\ cfgErr' = "create"
             /\ cfgpc' = "writefail"
             /\ UNCHANGED file
    /\ UNCHANGED <<cred, logVars, procVars, fileVars, drvVars, resource, pc, mrErr, ops,
                   settings, dflt, loaded>>
    /\ UNCHANGED mrVars
    /\ UNCHANGED sshVars
    /\ UNCHANGED callVars

\* lines 111-130 on a new(defaults), as GetSettings calls it (lines 271, 293)
defaultsRead ==
    /\ cfgpc = "written"
    /\ \E readable \in BOOLEAN :
        /\ loaded' = read(ZeroDefaults, file, readable).d
        /\ cfgErr' = read(ZeroDefaults, file, readable).err
        /\ cfgpc' = IF readable THEN "read" ELSE "readfail"
    /\ UNCHANGED <<cred, logVars, procVars, fileVars, drvVars, resource, pc, mrErr, ops,
                   settings, dflt, file>>
    /\ UNCHANGED mrVars
    /\ UNCHANGED sshVars
    /\ UNCHANGED callVars

NextDefaults ==
    \/ defaultsWrite
    \/ defaultsRead

SpecDefaults == InitDefaults /\ [][NextDefaults]_vars

\* lines 75-78: RunCommand hands on RunCommandWithOutput's status and error
RunCommand(r) == [exitStatus |-> r.exitStatus, err |-> r.err]

IsPrefix(a, b) == Len(a) <= Len(b) /\ \A i \in 1..Len(a) : a[i] = b[i]

RunReturned == cpc = "rc_ret"
ExpectedHostKey == ParseAuthorizedKey(cred.SSHHostKey).key
Last(q) == q[Len(q)]

TypeOK ==
    /\ pc \in {"main", "mr_query", "mr_start", "mr_wait", "mr_resolve", "ssh_parse",
               "ssh_auth", "ssh_dial", "mr_probe", "mr_probewait", "returned",
               "ready", "exited", "crashed", "m_step", "m_wait"}
    /\ mrErr \in {"pending", "nil", "err", "panic"}
    /\ cmdClient \in {"nil", "client"}
    /\ transport \in {"none", "open", "closed"}
    /\ curOpened \in 0..1
    /\ subOpen \in 0..1

\* ================================================================== claims

\* C1: a remote command that runs and exits with code N makes RunCommand and
\* RunCommandWithOutput return exit status N and a nil error, for N = 0 and
\* for every N # 0 that the transport reports as an ExitError.
C1_ExitCodeReturned ==
    (cpc \in {"rc_defer", "rc_ret"} /\ outcome.kind = "exit")
        => /\ result = [exitStatus |-> outcome.code, err |-> "nil"]
           /\ RunCommand(result) = [exitStatus |-> outcome.code, err |-> "nil"]

C1_Witness ==
    /\ RunReturned
    /\ outcome = [kind |-> "exit", code |-> 255]
    /\ RunCommand(result).exitStatus = 255

\* C2 (as stated): when the remote reported no exit code (ExitMissingError),
\* RunCommand returns the sentinel status 1 and no error.
C2_MissingExitNoError ==
    (RunReturned /\ outcome.kind = "missing")
        => /\ RunCommand(result).exitStatus = statusMissingStatus
           /\ RunCommand(result).err = "nil"

C4_FixedHostKeyOnly ==
    /\ cmdClient = "client" => (dial.done /\ dial.presented = ExpectedHostKey)
    /\ (dial.done /\ dial.presented # ExpectedHostKey)
            => (cmdClient = "nil" /\ transport = "none" /\ mrErr = "err")
    /\ (dial.done /\ dial.net /\ dial.auth)
            => (cmdClient = "client" <=> dial.presented = ExpectedHostKey)

C4_Witness ==
    /\ dial.done /\ dial.net /\ dial.auth
    /\ dial.presented.type = ExpectedHostKey.type
    /\ dial.presented # ExpectedHostKey
    /\ cmdClient = "nil"
    /\ mrErr = "err"

\* C5: with malformed host-key text NewSSHCmdClient returns an error before
\* any network I/O: ssh.Dial is never called, the key file is not read, and
\* no Channel exists.
C5_MalformedHostKeyNoDial ==
    ParseAuthorizedKey(cred.SSHHostKey).err
        => /\ dials = 0
           /\ ~dial.done
           /\ cmdClient = "nil"
           /\ transport = "none"
           /\ pc \notin {"ssh_auth", "ssh_dial", "mr_probe", "mr_probewait", "ready"}
           /\ (steps # <<>> /\ Last(steps) = "open") => mrErr = "err"

C5_Witness ==
    /\ ParseAuthorizedKey(cred.SSHHostKey).err
    /\ steps # <<>> /\ Last(steps) = "open"
    /\ mrErr = "err"
    /\ dials = 0

\* C6 (as stated): when makeReady returns an error, no open transport remains.
C6_NoTransportLeak ==
    (pc = "returned" /\ mrErr = "err") => transport # "open"

\* C7: a call that opened a sub-session has closed it exactly once when it
\* returns, on every exit path of RunCommandWithOutput and writeToFile; a call
\* whose sub-session failed to open closes nothing; no session is ever closed
\* more often than it was opened.
C7_SubSessionClosedOnce ==
    /\ curCloses <= curOpened
    /\ Returned => (curCloses = curOpened /\ subOpen = 0)
    /\ (Returned /\ outcome.kind = "nosession") => (curOpened = 0 /\ curCloses = 0)
    /\ (Returned /\ outcome.kind # "nosession") => (curOpened = 1 /\ curCloses = 1)

C7_Witness ==
    /\ RunReturned
    /\ outcome.kind = "nopty"
    /\ curOpened = 1
    /\ curCloses = 1

\* C8: when the status query does not report a running instance, makeReady
\* issues status query, start request, readiness wait, address resolution,
\* Channel open and probe in this order, each only after all earlier ones
\* succeeded, and the instance is ready only after all six have succeeded.
C8_StepOrder ==
    /\ Len(steps) <= okSteps + 1
    /\ ~queryRunning => IsPrefix(steps, SixSteps)
    /\ (~queryRunning /\ (mrErr = "nil" \/ pc = "ready"))
            => (steps = SixSteps /\ okSteps = 6)

C8_Witness ==
    /\ ~queryRunning
    /\ pc = "ready"
    /\ steps = SixSteps
    /\ okSteps = 6

\* C9: for a resource the control plane does not know, makeReady fails at the
\* status query: no start request, no later step and no connection attempt.
C9_AbsentResourceFailsAtQuery ==
    resource = "absent"
        => /\ steps \in {<<>>, <<"query">>}
           /\ steps = <<"query">> => (mrErr = "err" /\ pc \in {"returned", "exited"})
           /\ dials = 0
           /\ transport = "none"

C9_Witness ==
    /\ resource = "absent"
    /\ steps = <<"query">>
    /\ mrErr = "err"

\* C10 (as stated): when the control plane returns no instance record or a
\* record without a public address, makeReady returns an error value instead
\* of faulting, and no Channel is constructed.
C10_UnresolvedAddressIsError ==
    addrInfo \in {"norecord", "noaddr"}
        => /\ mrErr = "err"
           /\ pc # "crashed"
           /\ dials = 0


\* C11: makeReady returns a non-nil error whenever the `true` probe returned
\* a transport error or a non-zero exit status (also a non-zero status with a
\* nil error); the instance is reported ready only after the probe returned
\* exit status 0 with no error.
ProbeChecked == steps # <<>> /\ Last(steps) = "probe" /\ pc = "returned"

C11_ProbeDecidesReady ==
    /\ ProbeChecked
        => /\ mrErr \in {"nil", "err"}
           /\ mrErr = "nil" <=> (result.exitStatus = 0 /\ result.err = "nil")
    /\ (mrErr = "nil" \/ pc = "ready") => (okSteps = Len(steps) /\ Last(steps) = "probe")

C11_Witness ==
    /\ ProbeChecked
    /\ outcome.kind = "exit"
    /\ result.exitStatus # 0
    /\ result.err = "nil"
    /\ mrErr = "err"

\* C12: when the start request fails, or the readiness wait ends in a timeout
\* or provider error, makeReady returns an error and performs no later step:
\* no address resolution, no Channel open, no probe.
StartOrWaitFailed ==
    /\ steps # <<>>
    /\ Last(steps) \in {"start", "wait"}
    /\ Len(steps) = okSteps + 1

C12_StartFailureEndsCall ==
    /\ StartOrWaitFailed
        => /\ mrErr = "err"
           /\ pc \in {"returned", "exited"}
           /\ addrInfo = "none"
           /\ dials = 0
           /\ transport = "none"
           /\ cpc = "idle"
    /\ (Len(steps) > 3 /\ steps[2] = "start") => okSteps >= 3

C12_Witness ==
    /\ StartOrWaitFailed
    /\ Last(steps) = "wait"
    /\ mrErr = "err"
    /\ pc = "returned"


\* C13 (as stated): a second or later call of Close on a ready instance
\* leaves the transport released and returns no error, like the first.
C13_CloseIdempotent ==
    closes >= 1 => (transport = "closed" /\ closeErr = "nil")

\* C14 (as stated): whenever main ends after makeReady succeeded, by normal
\* completion, debug-run completion or a fatal failure of a later step, the
\* transport has been released by a call of Close.
C14_ClosedBeforeExit ==
    (pc = "exited" /\ mrErr = "nil") => (closes >= 1 /\ transport = "closed")


\* C15: when WriteBytesToFile(payload, path) returns no error, the remote
\* file at path holds exactly payload: same bytes, same order, same length,
\* whatever it held before; payloads with null bytes and payloads longer than
\* one transfer buffer included.
C15_BytesWrittenExactly ==
    (cpc = "wf_ret" /\ srcKind = "bytes" /\ result.err = "nil")
        => /\ remoteFile[dest] = payload
           /\ Len(remoteFile[dest]) = Len(payload)

C15_Witness ==
    /\ cpc = "wf_ret"
    /\ srcKind = "bytes"
    /\ result.err = "nil"
    /\ Len(payload) > BufSize
    /\ \E i \in 1..Len(payload) : payload[i] = 0
    /\ remoteFile[dest] = payload
    /\ remoteFile[dest] # OldContent

\* C17: CopyFile returns an error when the local source is missing or is not
\* a regular file (a directory, a device); it then has opened no sub-session
\* and has sent nothing.
C17_BadSourceNoTransfer ==
    (localSrc \in {"missing", "directory", "device"})
        => /\ cpc = "cf_ret"
           /\ result.err # "nil"
           /\ curOpened = 0
           /\ subOpen = 0
           /\ sent = <<>>
           /\ chanData = <<>>

C17_Witness ==
    /\ cpc = "cf_ret"
    /\ localSrc = "device"
    /\ result.err = "notregular"
    /\ curOpened = 0
    /\ transport = "open"

\* the calls that run a remote command are under way or have just returned
CommandIssued == cpc \in {"rc_newsession", "rc_pty", "rc_run", "rc_defer", "rc_ret"}

\* C18: operations issued one after another on one Channel complete in issue
\* order: at most one sub-session is open at any time, none is open between
\* operations, each operation that opened one has closed it when it returns,
\* and a command issued after an upload has returned finds the file holding
\* everything the upload transferred, with nothing still on its way.
C18_SequentialOperations ==
    /\ subOpen <= 1
    /\ cpc = "idle" => subOpen = 0
    /\ CallDone => (subOpen = 0 /\ curCloses = curOpened)
    /\ (CommandIssued /\ lastUpload.ok)
          => (remoteFile[lastUpload.dest] = lastUpload.sent /\ chanData = <<>>)

C18_Witness ==
    /\ cpc = "rc_run"
    /\ caller = "driver"
    /\ lastUpload.ok
    /\ Len(lastUpload.sent) > BufSize
    /\ remoteFile[lastUpload.dest] = lastUpload.sent
    /\ subOpen = 1


\* C16: for every destination, those holding one or more single quotes
\* included, the command writeToFile builds is "cat >" followed by one shell
\* word that the POSIX shell reads back as exactly the destination, every
\* character of it taken inside quotes or after a backslash.
C16_QuotedDestination ==
    cmd # <<>>
        => /\ SubSeq(cmd, 1, Len(CatTo)) = CatTo
           /\ ShellRedirect(cmd).wellFormed
           /\ ShellRedirect(cmd).word = dest
           /\ ShellRedirect(cmd).bare = 0

C16_Witness ==
    /\ cmd # <<>>
    /\ dest = <<"'", " ", "'">>
    /\ ShellRedirect(cmd).word = dest
    /\ Len(cmd) = Len(CatTo) + 11

\* C19: when session.Run returns for a BackgroundCommand call, the status is
\* that of the wrapping shell alone: a wrapper that exited 0 gives (0, nil),
\* and (0, nil) is returned with the wrapped command started and still
\* running, never waited for; the command's own end, whenever it comes,
\* changes nothing of what the call returns.
C19_LaunchStatusOnly ==
    [][/\ (cpc = "rc_run" /\ cpc' = "rc_defer" /\ method = "BackgroundCommand")
            => /\ (outcome'.kind = "exit" /\ outcome'.code = 0)
                    => result' = [exitStatus |-> 0, err |-> "nil"]
               /\ result' = [exitStatus |-> 0, err |-> "nil"]
                    => (bg'.state = "running" /\ outcome'.kind = "exit")
       /\ (bg.state = "running" /\ bg'.state = "exited")
            => (result' = result /\ outcome' = outcome /\ cpc' = cpc)]_vars

C19_Witness ==
    /\ RunReturned
    /\ method = "BackgroundCommand"
    /\ cmd = BackgroundLine(<<"sleep infinity">>, TRUE)
    /\ RunCommand(result) = [exitStatus |-> 0, err |-> "nil"]
    /\ bg.state = "running"

\* C20: a command BackgroundCommand launched is never terminated by the close
\* of its launching sub-session or of the Channel: it runs until its own end.
C20_DetachedOutlivesChannel ==
    /\ bg.state # "killed"
    /\ bg.state = "running" => bg.hupProof

C20_Witness ==
    /\ bg.state = "running"
    /\ subOpen = 0
    /\ cpc = "idle"
    /\ transport = "closed"
    /\ closes >= 1


\* C21: BackgroundCommand(cmd, discardOutput) runs one remote command line:
\* "nohup bash -c '((", cmd, ") &)' ", followed by "&>/dev/null" exactly when
\* discardOutput is set; it opens one sub-session at most and returns the
\* status and error RunCommand returns for that line.
C21_BackgroundLineRun ==
    (method = "BackgroundCommand")
        => /\ cmd = <<"nohup bash -c '((">> \o arg.cmd \o <<") &)' ">>
                      \o (IF arg.discardOutput THEN <<"&>/dev/null">> ELSE <<>>)
           /\ (cmd[Len(cmd)] = "&>/dev/null") <=> arg.discardOutput
           /\ curOpened <= 1
           /\ (cpc \in {"rc_defer", "rc_ret"} /\ outcome.kind \notin {"nosession", "nopty"})
                => RunCommand(result) = ExitStatusSwitch(SessionRun(outcome))

C21_Witness ==
    /\ RunReturned
    /\ method = "BackgroundCommand"
    /\ ~arg.discardOutput
    /\ Len(cmd) = 3
    /\ outcome = [kind |-> "exit", code |-> 2]
    /\ result = [exitStatus |-> 2, err |-> "nil"]


StepNames == [i \in 1..Len(MainSteps) |-> MainSteps[i].name]
StepOK(entry) == entry.exitStatus = 0 /\ entry.err = "nil"

\* C22: main issues its steps in program order (the three instance checks,
\* the working directory, the two uploads, chmod, the launch), none before
\* NewEC2RemoteClient succeeded and each only after every earlier one
\* returned exit status 0 and no error; after a step that failed nothing more
\* is issued, so the launch is issued only after all eight others succeeded.
C22_LaunchAfterPreparation ==
    /\ issued # <<>> => mrErr = "nil"
    /\ IsPrefix(issued, StepNames)
    /\ Len(mlog) \in {Len(issued), Len(issued) - 1}
    /\ \A i \in 1..Len(mlog) : mlog[i].name = issued[i]
    /\ \A i \in 1..Len(issued) : \A j \in 1..(i - 1) : StepOK(mlog[j])
    /\ (issued # <<>> /\ Last(issued) = "launch")
          => \A j \in 1..(Len(MainSteps) - 1) : StepOK(mlog[j])
    /\ (mlog # <<>> /\ ~StepOK(Last(mlog)))
          => (pc = "exited" /\ exitHow = "fatal" /\ Len(issued) = Len(mlog))

C22_Witness ==
    /\ pc = "exited"
    /\ exitHow = "fatal"
    /\ Len(issued) = Len(MainSteps) - 1
    /\ Last(issued) = "chmod"
    /\ Last(mlog).exitStatus = 1
    /\ Last(mlog).err = "nil"

\* how often the launch was issued
Launches == Cardinality({i \in 1..Len(issued) : issued[i] = "launch"})

\* C26: in debug-run mode main performs every preparation step and never
\* issues the launch; outside it the launch is issued, once, after them.
C26_DebugRunNeverLaunches ==
    /\ Launches <= 1
    /\ debug => Launches = 0
    /\ (pc = "exited" /\ exitHow = "exit0" /\ debug)
          => (issued = SubSeq(StepNames, 1, Len(MainSteps) - 1)
              /\ \A j \in 1..Len(mlog) : StepOK(mlog[j]))
    /\ (pc = "exited" /\ exitHow = "exit0" /\ ~debug)
          => (issued = StepNames /\ Launches = 1)
    /\ (~debug /\ pc = "m_wait" /\ mstep = Len(MainSteps)) => method = "BackgroundCommand"

C26_Witness ==
    /\ pc = "exited"
    /\ exitHow = "exit0"
    /\ debug
    /\ Len(issued) = Len(MainSteps) - 1
    /\ Last(issued) = "chmod"
    /\ bg.state = "none"


Issued(step) == \E i \in 1..Len(steps) : steps[i] = step

\* C24: makeReady issues the start request, and after it the readiness wait,
\* exactly when the status query did not report the instance running; for a
\* running instance it issues neither. Either way the address it connects to
\* is the one DescribeInstances gave in this call: the client starts with no
\* address and connects only after resolving one.
C24_StartIffNotRunning ==
    /\ queryRunning => (~Issued("start") /\ ~Issued("wait") /\ pc # "mr_start")
    /\ Len(steps) >= 2
          => /\ steps[1] = "query"
             /\ (steps[2] = "start") <=> ~queryRunning
             /\ (steps[2] = "resolve") <=> queryRunning
    /\ (okSteps >= 1 /\ ~queryRunning /\ Len(steps) = 1) => pc = "mr_start"
    /\ Issued("wait") => (Len(steps) >= 3 /\ steps[2] = "start" /\ steps[3] = "wait")
    /\ ~Issued("resolve") => (instanceIP = NilPtr /\ ~dial.done)
    /\ dial.done => (Issued("resolve") /\ addrInfo = "addr" /\ instanceIP \in ValidIPs)

C24_Witness ==
    /\ queryRunning
    /\ steps = <<"query", "resolve", "open", "probe">>
    /\ dial.done
    /\ instanceIP \in ValidIPs
    /\ transport = "open"


Times(step) == Cardinality({i \in 1..Len(steps) : steps[i] = step})

\* a step of makeReady has failed and the call is over
StepFailed == pc \in {"returned", "exited", "crashed"} /\ okSteps < Len(steps)

\* C25 (as stated): within one makeReady call every step is attempted at most
\* once (one status query, one start request, one readiness wait, one address
\* resolution, one connection attempt, one probe), and after a step has
\* failed nothing is repeated and the call ends in an error.
C25_OnceThenError ==
    /\ \A i \in 1..Len(SixSteps) : Times(SixSteps[i]) <= 1
    /\ dials <= 1
    /\ StepFailed => (mrErr = "err" /\ pc # "crashed")


\* C29 (as stated): when the private key named by the credentials cannot be
\* read or cannot be parsed, NewSSHCmdClient returns an error to its caller,
\* with no Channel and no connection attempt, and the process goes on.
C29_BadKeyReturnsError ==
    (cred.pem # "ok" /\ Issued("open") /\ pc # "ssh_auth")
        => /\ pc # "crashed"
           /\ mrErr = "err"
           /\ cmdClient = "nil"
           /\ dials = 0


\* C27 (as stated): CopyFile and WriteBytesToFile return an error whenever
\* the copy into the sub-session's input stopped before the whole source was
\* sent, by a local read error or by a write error; an upload that returns
\* no error has left the whole source in the remote file.
C27_ShortCopyIsError ==
    (cpc = "wf_ret" /\ srcKind \in {"bytes", "file"})
        => /\ outcome.kind \in {"readerr", "writeerr"} => result.err # "nil"
           /\ sent # payload => result.err # "nil"
           /\ result.err = "nil" => remoteFile[dest] = payload


\* C30 (as stated): Close and the delegation methods called on the instance
\* that NewEC2RemoteClient returned together with an error from a step before
\* the SSHCmdClient was made return an error rather than faulting.
C30_AbsentChannelReturnsError ==
    (AbsentChannel /\ (closes > 0 \/ ops > 0))
        => /\ exitHow # "panic"
           /\ closes > 0 => closeErr \notin {"none", "nil"}
           /\ ops > 0 => result.err # "nil"


\* a required setting is missing: no PEM path, a PEM file that is not there,
\* no username, no instance ID or no S3 bucket
MissingRequired(c) ==
    \/ Deref(c.PemFile) = ""
    \/ IsNotExist(Stat(Deref(c.PemFile)))
    \/ Deref(c.Username) = ""
    \/ Deref(c.InstanceID) = ""
    \/ Deref(c.S3bucket) = ""

\* C23 (as stated): checkSettings returns a non-nil error whenever a required
\* setting is missing, whatever the optional email address is, a well-formed
\* one included; GetSettings returns that error and the run does not proceed.
C23_MissingSettingIsError ==
    (cfgpc # "check" /\ MissingRequired(settings))
        => /\ checkSettings(settings) # "nil"
           /\ cfgErr # "nil"
           /\ cfgpc \in {"returned_err", "fatal"}

SameDefaults(a, b) ==
    /\ a.DefaultInstanceID = b.DefaultInstanceID
    /\ DOMAIN a.Instances = DOMAIN b.Instances
    /\ \A k \in DOMAIN a.Instances : a.Instances[k] = b.Instances[k]

\* C28: saving then loading the defaults is a round trip: once write has
\* returned no error and read has read that file, the structure read holds the
\* primary instance ID and the per-instance settings that were written, for
\* every defaults value, those shorter than the writer's buffer included.
C28_DefaultsRoundTrip ==
    (cfgpc = "read")
        => /\ cfgErr = "nil"
           /\ SameDefaults(loaded, dflt)
           /\ file.data = EncodedLines(dflt)

C28_Witness ==
    /\ cfgpc = "read"
    /\ Len(EncodedLines(dflt)) < WriterSize
    /\ dflt.DefaultInstanceID = InstanceIDs[1]
    /\ loaded.DefaultInstanceID = InstanceIDs[1]
    /\ file.data # <<>>

====
